---- MODULE Spec2Model ----
(***************************************************************************)
(* MoodTunes: the batch job of src/app.py (load_all_tracks,                *)
(* extract_mood_features, analyze_mood, process_and_store) writing to the  *)
(* SQLite schema of src/backend/utils/setup_database.py.                   *)
(***************************************************************************)
EXTENDS Integers, Sequences, FiniteSets, TLC

\* ---------------------------------------------------------------- bounds
MaxTracks == 3      \* rows of tracks.csv: track ids 1..MaxTracks
MaxBatch  == 3      \* batch_size is drawn from 1..MaxBatch
MaxRuns   == 2      \* runs of process_and_store against the same database
MaxItems  == 4      \* items loaded over all the runs together
FeatSteps == 2      \* grid steps of the feature values given to analyze_mood

Titles == {"t1", "t2"}      \* title text a catalog row can carry

\* ---------------------------------------------------------------- helpers
Min(a, b) == IF a <= b THEN a ELSE b

RECURSIVE Digits(_)
\* str(n) for n >= 0, as a sequence of decimal digits
Digits(n) == IF n < 10 THEN <<n>> ELSE Append(Digits(n \div 10), n % 10)

RECURSIVE zfill(_, _)
\* str.zfill(width): left-pad with zeros up to width, never truncate
zfill(s, width) == IF Len(s) >= width THEN s ELSE zfill(<<0>> \o s, width)

\* get_audio_path: dataset/fma_small/<tid[:3]>/<tid>.mp3
get_audio_path(track_id) ==
    LET tid_str == zfill(Digits(track_id), 6)
    IN  [dir |-> SubSeq(tid_str, 1, 3), name |-> tid_str]

NoPath == [dir |-> <<>>, name |-> <<>>]

\* s occurs in t as a contiguous run
IsSubstring(s, t) ==
    \E k \in 0..(Len(t) - Len(s)) : SubSeq(t, k + 1, k + Len(s)) = s

\* one record of the run log (logging.info / logging.error): the level, the
\* fixed text of the message, and what the f-string interpolates into it
LogEntry(level, msg, track_id, file_path, reason) ==
    [level |-> level, msg |-> msg, track_id |-> track_id,
     file_path |-> file_path, reason |-> reason]

\* ---------------------------------------------------------------- catalog
RECURSIVE valid_tracks(_, _, _)
\* the loop of load_all_tracks over tracks.index (ids 1..n in file order),
\* keeping the rows whose audio file exists
valid_tracks(n, exists, title) ==
    IF n = 0 THEN <<>>
    ELSE LET rest == valid_tracks(n - 1, exists, title)
         IN  IF n \in exists
             THEN Append(rest, [track_id |-> n, title |-> title,
                                file_path |-> get_audio_path(n)])
             ELSE rest

\* mutant: the except branch hands back the rows instead of []
load_all_tracks_keeps_rows(csv_ok, exists, title) ==
    [tracks |-> valid_tracks(MaxTracks, exists, title),
     log    |-> IF csv_ok
                THEN <<LogEntry("INFO", "Successfully loaded tracks metadata", 0, NoPath, "none"),
                       LogEntry("INFO", "Found valid tracks with audio files", 0, NoPath, "none")>>
                ELSE <<LogEntry("ERROR", "Error loading metadata", 0, NoPath, "read_csv")>>]

load_all_tracks(csv_ok, exists, title) ==
    IF csv_ok
    THEN [tracks |-> valid_tracks(MaxTracks, exists, title),
          log    |-> <<LogEntry("INFO", "Successfully loaded tracks metadata", 0, NoPath, "none"),
                       LogEntry("INFO", "Found valid tracks with audio files", 0, NoPath, "none")>>]
    ELSE [tracks |-> <<>>,
          log    |-> <<LogEntry("ERROR", "Error loading metadata", 0, NoPath, "read_csv")>>]

\* ---------------------------------------------------------------- store
\* INSERT OR IGNORE: an existing row with the key is kept (mutant)
insert_or_ignore(rows, row) ==
    IF \E k \in 1..Len(rows) : rows[k].track_id = row.track_id
    THEN rows
    ELSE SelectSeq(rows, LAMBDA r : r.track_id < row.track_id)
         \o <<row>>
         \o SelectSeq(rows, LAMBDA r : r.track_id > row.track_id)

\* INSERT OR REPLACE INTO songs: track_id is the INTEGER PRIMARY KEY, so the
\* table is kept in key order and a row with the same key is deleted first
insert_or_replace(rows, row) ==
    SelectSeq(rows, LAMBDA r : r.track_id < row.track_id)
    \o <<row>>
    \o SelectSeq(rows, LAMBDA r : r.track_id > row.track_id)

\* INSERT INTO mood_analysis: id INTEGER PRIMARY KEY AUTOINCREMENT, no
\* uniqueness on track_id (no row is ever deleted, so the next id is Len + 1)
insert_mood(rows, track_id) ==
    Append(rows, [id |-> Len(rows) + 1, track_id |-> track_id])

SongOp(track) == [tbl |-> "songs", track_id |-> track.track_id, title |-> track.title]
MoodOp(track) == [tbl |-> "mood_analysis", track_id |-> track.track_id, title |-> "none"]

apply_op(db, op) ==
    IF op.tbl = "songs"
    THEN [db EXCEPT !.songs =
            insert_or_replace(@, [track_id |-> op.track_id, title |-> op.title])]
    ELSE [db EXCEPT !.mood_analysis = insert_mood(@, op.track_id)]

RECURSIVE apply_all(_, _)
apply_all(db, ops) ==
    IF ops = <<>> THEN db ELSE apply_all(apply_op(db, Head(ops)), Tail(ops))

\* mutant: the connection is in autocommit mode (isolation_level=None)
execute_autocommit(db, pending, op) ==
    [db |-> apply_op(db, op), txn |-> pending]

\* cursor.execute of a write on the default sqlite3 connection: the statement
\* joins the open transaction and reaches the database file only on commit
execute(db, pending, op) ==
    [db |-> db, txn |-> Append(pending, op)]

\* conn.commit(): the open transaction becomes durable
commit(db, pending) == apply_all(db, pending)

\* ---------------------------------------------------------------- batching
\* mutant: the slice drops the last item of the batch
batch_slice_short(trks, start, size) ==
    SubSeq(trks, start + 1, Min(start + size, Len(trks)) - 1)

\* tracks[i:i + batch_size]
batch_slice(trks, start, size) ==
    SubSeq(trks, start + 1, Min(start + size, Len(trks)))

\* where control goes once the body of `for track in batch` is over for the
\* item at position pos of a batch of n items: the next item, or the commit
after_item(pos, n) ==
    IF pos + 1 < n THEN [pc |-> "extract", j |-> pos + 1]
                   ELSE [pc |-> "commit", j |-> pos + 1]

\* mutant: the handler re-raises and the run dies with the exception
after_failure_raises(pos, n) == [pc |-> "crashed", j |-> pos]

\* mutant: the failed item is tried again
after_failure_retries(pos, n) == [pc |-> "extract", j |-> pos]

\* the error branches (the two `else` and the `except Exception`) only count
\* and log: the loop goes on with the next item
after_failure(pos, n) == after_item(pos, n)

\* mutant: an error branch that forgets the counter
count_error_forgotten(count) == count

\* error_count += 1
count_error(count) == count + 1

\* ---------------------------------------------------------------- scoring
\* Feature values are scaled integers: tempo in BPM, rms_energy in 1/100,
\* spectral_centroid in Hz, zero_crossing_rate in 1/10. Intensities are in
\* 1/Unit, the common denominator of /180.0, *10, /4000 and /2, so that the
\* arithmetic of analyze_mood is exact.
Unit == 72000

RequiredKeys == {"tempo", "rms_energy", "spectral_centroid", "zero_crossing_rate"}

NoMoods == [ok |-> FALSE, happy_intensity |-> 0, sad_intensity |-> 0,
            energetic_intensity |-> 0, calm_intensity |-> 0, angry_intensity |-> 0]

\* mutant: the intensities are not capped with min(1.0, ...)
analyze_mood_unclamped(f) ==
    IF ~(RequiredKeys \subseteq DOMAIN f)
    THEN NoMoods
    ELSE LET tempo_factor == 200 * Min(f.tempo, 180)
             energetic    == tempo_factor + 3600 * f.rms_energy
             happy        == 9 * f.spectral_centroid + tempo_factor
         IN  [ok |-> TRUE,
              happy_intensity     |-> happy,
              sad_intensity       |-> Unit - happy,
              energetic_intensity |-> energetic,
              calm_intensity      |-> Unit - energetic,
              angry_intensity     |-> 720 * f.rms_energy * f.zero_crossing_rate]

\* analyze_mood: a missing key raises KeyError inside the try, which is
\* logged and turned into None
analyze_mood(f) ==
    IF ~(RequiredKeys \subseteq DOMAIN f)
    THEN NoMoods
    ELSE LET tempo_factor == 200 * Min(f.tempo, 180)          \* min(tempo/180.0, 1.0) / 2
             energy_half  == 3600 * f.rms_energy               \* rms_energy * 10 / 2
             bright_half  == 9 * f.spectral_centroid           \* spectral_centroid / 4000 / 2
             energetic    == Min(Unit, tempo_factor + energy_half)
             happy        == Min(Unit, bright_half + tempo_factor)
             angry        == Min(Unit, 720 * f.rms_energy * f.zero_crossing_rate)
         IN  [ok |-> TRUE,
              happy_intensity     |-> happy,
              sad_intensity       |-> Unit - happy,
              energetic_intensity |-> energetic,
              calm_intensity      |-> Unit - energetic,
              angry_intensity     |-> angry]

\* the feature vectors handed to analyze_mood: a grid that reaches below zero
\* and above every cap of the formula
FeatureGrid ==
    [tempo              : {90 * k  : k \in -1..(FeatSteps + 1)},
     rms_energy         : {5 * k   : k \in -1..(FeatSteps + 1)},
     spectral_centroid  : {2000 * k : k \in -1..(FeatSteps + 1)},
     zero_crossing_rate : {5 * k   : k \in -1..FeatSteps}]

\* a feature mapping without its tempo key
WithoutTempo(f) == [k \in (DOMAIN f) \ {"tempo"} |-> f[k]]

\* tempo=180, rms_energy=0.05, spectral_centroid=2000, zero_crossing_rate=0.1
SampleFeatures == [tempo |-> 180, rms_energy |-> 5, spectral_centroid |-> 2000,
                   zero_crossing_rate |-> 1]

\* ---------------------------------------------------------------- state
VARIABLES
    pc,               \* position of the process in process_and_store
    run,              \* runs of the script started so far
    batch_size,       \* the batch_size argument of the current run
    csv_readable,     \* whether pd.read_csv succeeded in the current run
    tracks,           \* the list returned by load_all_tracks
    i,                \* start offset of the current batch (range(0, total, batch_size))
    j,                \* position of the current item in the batch
    processed_count,
    error_count,
    songs,            \* rows of table songs in the database file
    mood_analysis,    \* rows of table mood_analysis in the database file
    txn,              \* statements executed on conn and not yet committed
    log,              \* entries of this run's processing_log_*.log
    console,          \* what the run printed about its outcome
    item_state,       \* per item of tracks: PENDING, EXTRACTED, SCORED, STORED, FAILED
    attempts,         \* per item: how many times its processing was begun
    failed_at,        \* per item: the stage that failed, or "none"
    item_writes,      \* per item: the tables the run has written for it
    item_batch,       \* per item: the batch (1, 2, ...) it was processed in, or 0
    commit_after,     \* per conn.commit() of the run: items attempted before it
    committed,        \* writes covered by a commit: latest title and rows per id
    batch_writes,     \* writes executed since the last commit
    mood_base,        \* rows of mood_analysis in the file when the run began
    loaded_total,     \* items loaded by all the runs so far
    audio_files,      \* ids whose .mp3 exists under dataset/fma_small
    features,         \* argument of a direct call of analyze_mood
    moods             \* what that call returned

vars == <<pc, run, batch_size, csv_readable, tracks, i, j, processed_count,
          error_count, songs, mood_analysis, txn, log, console, item_state,
          attempts, failed_at, item_writes, item_batch, commit_after,
          committed, batch_writes, mood_base, loaded_total, audio_files,
          features, moods>>

storeVars == <<songs, mood_analysis, txn, committed, batch_writes>>
itemVars  == <<item_state, attempts, failed_at, item_writes, item_batch>>
countVars == <<processed_count, error_count>>
scoreVars == <<features, moods>>
runVars   == <<run, batch_size, csv_readable, tracks, mood_base, loaded_total,
               audio_files>>

Ids == 1..MaxTracks

Db == [songs |-> songs, mood_analysis |-> mood_analysis]

\* what a statement on conn sees: the file plus the open transaction
View == apply_all(Db, txn)

batch == batch_slice(tracks, i, batch_size)
track == batch[j + 1]
\* index in tracks of the item being processed
cur == i + j + 1

RunningPcs == {"load", "check", "extract", "score", "store_song",
               "store_mood", "commit", "close"}
ItemPcs == {"extract", "score", "store_song", "store_mood"}

\* failure reasons as the str(e) the handlers interpolate
Reason(stage) ==
    CASE stage = "extract"    -> "decode_error"
      [] stage = "score"      -> "key_error"
      [] stage = "store_song" -> "sqlite_error"
      [] stage = "store_mood" -> "sqlite_error"
      [] OTHER                -> "none"

\* the tables as the create_database of setup_database.py leaves them, and
\* the audio files of the dataset, which no run changes
Init ==
    /\ pc = "idle"
    /\ run = 0
    /\ batch_size = 1
    /\ csv_readable = TRUE
    /\ tracks = <<>>
    /\ i = 0
    /\ j = 0
    /\ processed_count = 0
    /\ error_count = 0
    /\ songs = <<>>
    /\ mood_analysis = <<>>
    /\ txn = <<>>
    /\ log = <<>>
    /\ console = <<>>
    /\ item_state = <<>>
    /\ attempts = <<>>
    /\ failed_at = <<>>
    /\ item_writes = <<>>
    /\ item_batch = <<>>
    /\ commit_after = <<>>
    /\ committed = [song |-> [t \in Ids |-> "none"], mood |-> [t \in Ids |-> 0]]
    /\ batch_writes = <<>>
    /\ mood_base = 0
    /\ loaded_total = 0
    /\ audio_files \in SUBSET Ids
    /\ features = SampleFeatures
    /\ moods = NoMoods

\* ---------------------------------------------------------------- actions
\* __main__ -> process_and_store(batch_size): sqlite3.connect, a fresh log
\* file (its name carries the start time), "Loading tracks metadata..."
StartRun ==
    /\ pc \in {"idle", "done", "returned", "crashed"}
    /\ run < MaxRuns
    /\ \E size \in 1..MaxBatch : batch_size' = size
    /\ run' = run + 1
    /\ pc' = "load"
    /\ csv_readable' = TRUE
    /\ tracks' = <<>>
    /\ i' = 0 /\ j' = 0
    /\ processed_count' = 0 /\ error_count' = 0
    /\ txn' = <<>> /\ batch_writes' = <<>>
    /\ log' = <<>> /\ console' = <<>>
    /\ item_state' = <<>> /\ attempts' = <<>> /\ failed_at' = <<>>
    /\ item_writes' = <<>> /\ item_batch' = <<>>
    /\ commit_after' = <<>>
    /\ mood_base' = Len(mood_analysis)
    /\ UNCHANGED <<songs, mood_analysis, committed, loaded_total, audio_files,
                   scoreVars>>

\* tracks = load_all_tracks()
Load ==
    /\ pc = "load"
    /\ \E csv_ok \in BOOLEAN, title \in Titles :
         LET r == load_all_tracks(csv_ok, audio_files, title)
         IN  /\ loaded_total + Len(r.tracks) <= MaxItems
             /\ loaded_total' = loaded_total + Len(r.tracks)
             /\ csv_readable' = csv_ok
             /\ tracks' = r.tracks
             /\ log' = log \o r.log
    /\ pc' = "check"
    /\ UNCHANGED <<run, batch_size, mood_base, audio_files, i, j, countVars, storeVars,
                   console, itemVars, commit_after, scoreVars>>

\* if not tracks: print("No tracks found!"); return
CheckEmpty ==
    /\ pc = "check"
    /\ tracks = <<>>
    /\ console' = Append(console, [msg |-> "No tracks found!", processed |-> 0,
                                   errors |-> 0, total |-> 0])
    /\ pc' = "returned"
    /\ UNCHANGED <<runVars, i, j, countVars, storeVars, log, itemVars,
                   commit_after, scoreVars>>

\* total_tracks, the two counters, and the first batch of the for loop
CheckTracks ==
    /\ pc = "check"
    /\ tracks # <<>>
    /\ processed_count' = 0 /\ error_count' = 0
    /\ i' = 0 /\ j' = 0
    /\ item_state'  = [k \in 1..Len(tracks) |-> "PENDING"]
    /\ attempts'    = [k \in 1..Len(tracks) |-> 0]
    /\ failed_at'   = [k \in 1..Len(tracks) |-> "none"]
    /\ item_writes' = [k \in 1..Len(tracks) |-> {}]
    /\ item_batch'  = [k \in 1..Len(tracks) |-> 0]
    /\ pc' = IF batch = <<>> THEN "commit" ELSE "extract"
    /\ UNCHANGED <<runVars, storeVars, log, console, commit_after, scoreVars>>

\* an error branch of the loop body: count, log (if the branch logs), go on
Fail(stage, entries) ==
    LET nxt == after_failure(j, Len(batch))
    IN  /\ error_count' = count_error(error_count)
        /\ log' = log \o entries
        /\ item_state' = [item_state EXCEPT ![cur] = "FAILED"]
        /\ failed_at' = [failed_at EXCEPT ![cur] = stage]
        /\ pc' = nxt.pc
        /\ j' = nxt.j
        /\ UNCHANGED <<processed_count, runVars, i, console, commit_after, scoreVars>>

\* features = extract_mood_features(track['file_path']); None -> error_count += 1
\* (extract_mood_features logs the path and the exception itself)
Extract ==
    /\ pc = "extract"
    /\ attempts' = [attempts EXCEPT ![cur] = @ + 1]
    /\ item_batch' = [item_batch EXCEPT ![cur] = (i \div batch_size) + 1]
    /\ \/ /\ item_state' = [item_state EXCEPT ![cur] = "EXTRACTED"]
          /\ pc' = "score"
          /\ UNCHANGED <<runVars, i, j, countVars, log, console, failed_at,
                         commit_after, scoreVars>>
       \/ Fail("extract", <<LogEntry("ERROR", "Error processing", 0,
                                     track.file_path, Reason("extract"))>>)
    /\ UNCHANGED <<storeVars, item_writes>>

\* moods = analyze_mood(features); None -> error_count += 1
\* (analyze_mood logs the exception, and nothing of the track)
Score ==
    /\ pc = "score"
    /\ \/ /\ item_state' = [item_state EXCEPT ![cur] = "SCORED"]
          /\ pc' = "store_song"
          /\ UNCHANGED <<runVars, i, j, countVars, log, console, failed_at,
                         commit_after, scoreVars>>
       \/ Fail("score", <<LogEntry("ERROR", "Error analyzing mood", 0,
                                   NoPath, Reason("score"))>>)
    /\ UNCHANGED <<storeVars, attempts, item_writes, item_batch>>

\* the except Exception of the loop body: logs the track id and str(e)
Except(stage) ==
    Fail(stage, <<LogEntry("ERROR", "Error processing track", track.track_id,
                           NoPath, Reason(stage))>>)

\* a statement went through on conn
Executed(op) ==
    LET r == execute(Db, txn, op)
    IN  /\ songs' = r.db.songs
        /\ mood_analysis' = r.db.mood_analysis
        /\ txn' = r.txn
        /\ batch_writes' = Append(batch_writes, op)
        /\ item_writes' = [item_writes EXCEPT ![cur] = @ \cup {op.tbl}]
        /\ UNCHANGED committed

\* cursor.execute(INSERT OR REPLACE INTO songs ...), or it raises
StoreSong ==
    /\ pc = "store_song"
    /\ \/ /\ Executed(SongOp(track))
          /\ pc' = "store_mood"
          /\ UNCHANGED <<runVars, i, j, countVars, log, console, item_state,
                         failed_at, commit_after, scoreVars>>
       \/ /\ Except("store_song")
          /\ UNCHANGED <<storeVars, item_writes>>
    /\ UNCHANGED <<attempts, item_batch>>

\* cursor.execute(INSERT INTO mood_analysis ...); processed_count += 1,
\* or it raises
StoreMood ==
    /\ pc = "store_mood"
    /\ \/ LET nxt == after_item(j, Len(batch))
          IN  /\ Executed(MoodOp(track))
              /\ processed_count' = processed_count + 1
              /\ item_state' = [item_state EXCEPT ![cur] = "STORED"]
              /\ pc' = nxt.pc
              /\ j' = nxt.j
              /\ UNCHANGED <<runVars, i, error_count, log, console, failed_at,
                             commit_after, scoreVars>>
       \/ /\ Except("store_mood")
          /\ UNCHANGED <<storeVars, item_writes>>
    /\ UNCHANGED <<attempts, item_batch>>

RECURSIVE Covered(_, _)
\* the writes a commit covers, folded into the per-id summary
Covered(sum, ops) ==
    IF ops = <<>> THEN sum
    ELSE LET op == Head(ops)
         IN  Covered(IF op.tbl = "songs"
                     THEN [sum EXCEPT !.song[op.track_id] = op.title]
                     ELSE [sum EXCEPT !.mood[op.track_id] = @ + 1],
                     Tail(ops))

\* conn.commit(); print("Progress: ..."); then the next batch, or the end
Commit ==
    /\ pc = "commit"
    /\ LET db == commit(Db, txn)
       IN  /\ songs' = db.songs
           /\ mood_analysis' = db.mood_analysis
    /\ txn' = <<>>
    /\ committed' = Covered(committed, batch_writes)
    /\ batch_writes' = <<>>
    /\ commit_after' = Append(commit_after,
                              Cardinality({k \in 1..Len(tracks) : attempts[k] > 0}))
    /\ console' = Append(console, [msg |-> "Progress", processed |-> processed_count,
                                   errors |-> error_count, total |-> Len(tracks)])
    /\ i' = i + batch_size
    /\ j' = 0
    /\ pc' = IF i + batch_size < Len(tracks)
             THEN (IF batch_slice(tracks, i + batch_size, batch_size) = <<>>
                   THEN "commit" ELSE "extract")
             ELSE "close"
    /\ UNCHANGED <<runVars, countVars, log, itemVars, scoreVars>>

\* conn.close(); "Processing complete!", "Successfully processed", "Errors"
Finish ==
    /\ pc = "close"
    /\ console' = Append(console, [msg |-> "Processing complete!",
                                   processed |-> processed_count,
                                   errors |-> error_count, total |-> Len(tracks)])
    /\ pc' = "done"
    /\ UNCHANGED <<runVars, i, j, countVars, storeVars, log, itemVars,
                   commit_after, scoreVars>>

\* the process dies (kill, power loss): SQLite rolls the open transaction
\* back when the file is next opened
Crash ==
    /\ pc \in RunningPcs
    /\ pc' = "crashed"
    /\ txn' = <<>>
    /\ batch_writes' = <<>>
    /\ UNCHANGED <<runVars, i, j, countVars, songs, mood_analysis, committed,
                   log, console, itemVars, commit_after, scoreVars>>

Step == Load \/ CheckEmpty \/ CheckTracks \/ Extract \/ Score \/ StoreSong
        \/ StoreMood \/ Commit \/ Finish

Next == StartRun \/ Step \/ Crash

Spec == Init /\ [][Next]_vars

\* the run without external kills: the single thread keeps going until
\* process_and_store returns
NextLive == StartRun \/ Step
LiveSpec == Init /\ [][NextLive]_vars /\ WF_vars(Step)

\* direct calls of analyze_mood over the feature grid (and over mappings that
\* lack a required key), the pipeline standing still
ScoreInit ==
    /\ pc = "analyze"
    /\ run = 0
    /\ batch_size = 1
    /\ csv_readable = TRUE
    /\ tracks = <<>>
    /\ i = 0
    /\ j = 0
    /\ processed_count = 0
    /\ error_count = 0
    /\ songs = <<>>
    /\ mood_analysis = <<>>
    /\ txn = <<>>
    /\ log = <<>>
    /\ console = <<>>
    /\ item_state = <<>>
    /\ attempts = <<>>
    /\ failed_at = <<>>
    /\ item_writes = <<>>
    /\ item_batch = <<>>
    /\ commit_after = <<>>
    /\ committed = [song |-> [t \in Ids |-> "none"], mood |-> [t \in Ids |-> 0]]
    /\ batch_writes = <<>>
    /\ mood_base = 0
    /\ loaded_total = 0
    /\ audio_files = Ids
    /\ features \in FeatureGrid \cup {WithoutTempo(f) : f \in FeatureGrid}
    /\ moods = NoMoods

\* moods = analyze_mood(features)
AnalyzeMood ==
    /\ pc = "analyze"
    /\ moods' = analyze_mood(features)
    /\ log' = IF moods'.ok THEN log
              ELSE Append(log, LogEntry("ERROR", "Error analyzing mood", 0,
                                        NoPath, Reason("score")))
    /\ pc' = "analyzed"
    /\ UNCHANGED <<runVars, i, j, countVars, storeVars, console, itemVars,
                   commit_after, features>>

ScoreSpec == ScoreInit /\ [][AnalyzeMood]_vars

\* ================================================================ claims
N == Len(tracks)
Terminal == {"STORED", "FAILED"}
FailedItems == {k \in 1..Len(item_state) : item_state[k] = "FAILED"}
StoredItems == {k \in 1..Len(item_state) : item_state[k] = "STORED"}
SongRows(rows, id) == {k \in 1..Len(rows) : rows[k].track_id = id}
MoodRows(rows, id) == {k \in 1..Len(rows) : rows[k].track_id = id}
FinalReport == [msg |-> "Processing complete!", processed |-> processed_count,
                errors |-> error_count, total |-> N]

\* ---- C1
C1_Loaded == pc = "check" /\ tracks # <<>>
C1_Completed ==
    /\ pc = "done"
    /\ \A k \in 1..N : attempts[k] >= 1 /\ item_state[k] \in Terminal
    /\ console # <<>> /\ console[Len(console)] = FinalReport

\* C1: whatever items fail (at extraction, scoring or a store write), a run
\* that loaded items goes on to attempt every one of them and reaches
\* completion, where the final processed/error counts are printed.
C1_RunCompletes == C1_Loaded ~> C1_Completed

C1_Witness ==
    /\ C1_Completed
    /\ {failed_at[k] : k \in FailedItems} = {"extract", "score", "store_song"}

\* ---- C2
\* C2: at completion processed_count = N - |F| and error_count = |F| for the
\* set F of failed items, and every successful item has its songs row (with
\* the run's field values) and a mood_analysis row of this run in the file.
C2_CountsAndRows ==
    pc = "done" =>
        /\ processed_count = N - Cardinality(FailedItems)
        /\ error_count = Cardinality(FailedItems)
        /\ Len(mood_analysis) = mood_base + processed_count
        /\ \A k \in StoredItems :
             /\ \E r \in 1..Len(songs) :
                  songs[r] = [track_id |-> tracks[k].track_id, title |-> tracks[k].title]
             /\ Cardinality({r \in MoodRows(mood_analysis, tracks[k].track_id) :
                               mood_analysis[r].id > mood_base}) = 1

C2_Witness ==
    /\ pc = "done"
    /\ batch_size = 3
    /\ item_state = <<"STORED", "FAILED", "STORED">>
    /\ failed_at[2] = "score"

\* ---- C3
\* the file holds, per id, what the per-id summary s says
Holds(db, s) ==
    \A id \in Ids :
        /\ Cardinality(SongRows(db.songs, id)) = IF s.song[id] = "none" THEN 0 ELSE 1
        /\ \A r \in SongRows(db.songs, id) : db.songs[r].title = s.song[id]
        /\ Cardinality(MoodRows(db.mood_analysis, id)) = s.mood[id]

\* C3: at every point (a crash included) the database file holds exactly the
\* writes of the batches already committed; the writes executed since the
\* last commit are not in it, and after a crash they are gone.
C3_DurableIsCommitted ==
    /\ Holds(Db, committed)
    /\ pc = "crashed" => txn = <<>> /\ View = Db

C3_Witness ==
    /\ pc = "crashed"
    /\ commit_after # <<>>
    /\ songs # <<>>
    /\ \E k \in 1..Len(item_writes) :
         /\ k > commit_after[Len(commit_after)]
         /\ item_writes[k] = {"songs", "mood_analysis"}
         /\ SongRows(songs, tracks[k].track_id) = {}

\* ---- C4
\* C4: as seen on the connection, songs has at most one row per track_id and
\* it carries the values of the latest write of that id, while mood_analysis
\* has one row per insert: k writes of an id leave one songs row and k
\* mood_analysis rows.
C4_UpsertAndAppend ==
    /\ Holds(View, Covered(committed, batch_writes))
    /\ \A id \in Ids : Cardinality(SongRows(View.songs, id)) <= 1

C4_Witness ==
    /\ pc \in ItemPcs
    /\ j > 0
    /\ run = 2
    /\ \E id \in Ids :
         /\ Cardinality(MoodRows(View.mood_analysis, id)) = 2
         /\ Cardinality(SongRows(View.songs, id)) = 1
         /\ \E r \in SongRows(songs, id), v \in SongRows(View.songs, id) :
              songs[r].title = "t1" /\ View.songs[v].title = "t2"

\* ---- C5
\* C5: when the metadata cannot be read, load_all_tracks yields no item, and
\* the run prints "No tracks found!" and returns: no item is attempted,
\* nothing is written to the store and nothing is committed.
C5_UnreadableCatalog ==
    ~csv_readable =>
        /\ tracks = <<>>
        /\ pc \in {"check", "returned", "crashed"}
        /\ item_state = <<>> /\ attempts = <<>>
        /\ txn = <<>> /\ batch_writes = <<>> /\ commit_after = <<>>
        /\ Len(mood_analysis) = mood_base
        /\ processed_count = 0 /\ error_count = 0
        /\ pc = "returned" =>
             console = <<[msg |-> "No tracks found!", processed |-> 0,
                          errors |-> 0, total |-> 0]>>

C5_Witness ==
    /\ ~csv_readable
    /\ pc = "returned"
    /\ songs # <<>>
    /\ \E k \in 1..Len(log) : log[k].msg = "Error loading metadata"

\* ---- C6
\* the text of a log entry carries the id: interpolated as such, or inside
\* an interpolated file path
ContainsId(e, id) ==
    \/ e.track_id = id
    \/ IsSubstring(Digits(id), e.file_path.name)

\* C6: every failed item has an error entry in the run log that carries the
\* item's id and the reason of the failure.
C6_FailureLoggedWithId ==
    \A k \in FailedItems :
        \E n \in 1..Len(log) :
            /\ log[n].level = "ERROR"
            /\ ContainsId(log[n], tracks[k].track_id)
            /\ log[n].reason = Reason(failed_at[k])

\* ---- C7
InUnit(x) == 0 <= x /\ x <= Unit
NonNegative(f) == \A k \in DOMAIN f : f[k] >= 0

\* C7 as stated: every intensity analyze_mood returns lies in [0.0, 1.0].
C7_AllInUnitInterval ==
    moods.ok =>
        /\ InUnit(moods.happy_intensity)
        /\ InUnit(moods.sad_intensity)
        /\ InUnit(moods.energetic_intensity)
        /\ InUnit(moods.calm_intensity)
        /\ InUnit(moods.angry_intensity)

\* C7 as amended: happy, energetic and angry never exceed 1.0 and sad and
\* calm never go below 0.0; all five lie in [0.0, 1.0] when the four feature
\* values are non-negative.
C7_BoundedAboveAndNonNegInputs ==
    moods.ok =>
        /\ moods.happy_intensity <= Unit
        /\ moods.energetic_intensity <= Unit
        /\ moods.angry_intensity <= Unit
        /\ moods.sad_intensity >= 0
        /\ moods.calm_intensity >= 0
        /\ NonNegative(features) => C7_AllInUnitInterval

C7_Witness ==
    /\ moods.ok
    /\ NonNegative(features)
    /\ features.tempo > 180
    /\ moods.energetic_intensity = Unit
    /\ moods.angry_intensity = Unit
    /\ moods.sad_intensity = 0

\* ---- C8
Allowed(a, b) ==
    \/ a = b
    \/ a = "PENDING"   /\ b \in {"EXTRACTED", "FAILED"}
    \/ a = "EXTRACTED" /\ b \in {"SCORED", "FAILED"}
    \/ a = "SCORED"    /\ b \in {"STORED", "FAILED"}

\* C8: within a run an item moves only PENDING -> EXTRACTED -> SCORED ->
\* STORED, or to FAILED from a stage; STORED and FAILED are never left, an
\* item is attempted at most once, and at completion every item is in one of
\* the two terminal states.
C8_ItemStateMachine ==
    [][(run' = run /\ Len(item_state') = Len(item_state)) =>
          /\ \A k \in 1..Len(item_state) :
               /\ Allowed(item_state[k], item_state'[k])
               /\ attempts'[k] <= 1
               /\ item_state'[k] # "PENDING" => attempts'[k] = 1
          /\ pc' = "done" => \A k \in 1..Len(item_state') : item_state'[k] \in Terminal
      ]_vars

C8_Witness ==
    /\ pc = "done"
    /\ \E k \in StoredItems : attempts[k] = 1
    /\ \E k \in FailedItems : failed_at[k] = "store_mood" /\ attempts[k] = 1

\* ---- C9
\* C9: the items are processed in consecutive batches of batch_size in the
\* original order, one at a time; the k-th commit comes when exactly the
\* items of the first k batches have been attempted, so a completed run has
\* made ceil(N / batch_size) commits.
C9_BatchesAndCommits ==
    item_state # <<>> =>
        /\ \A k \in 1..Len(commit_after) : commit_after[k] = Min(k * batch_size, N)
        /\ \A k \in 1..N :
             attempts[k] > 0 =>
                /\ item_batch[k] = ((k - 1) \div batch_size) + 1
                /\ Len(commit_after) >= item_batch[k] - 1
                /\ \A m \in 1..(k - 1) : attempts[m] > 0
        /\ Cardinality({k \in 1..N : item_state[k] \in {"EXTRACTED", "SCORED"}}) <= 1
        /\ \A k \in 1..N :
             item_state[k] \in {"EXTRACTED", "SCORED"} =>
                /\ \A m \in 1..(k - 1) : item_state[m] \in Terminal
                /\ \A m \in (k + 1)..N : item_state[m] = "PENDING" /\ attempts[m] = 0
                /\ Len(commit_after) = item_batch[k] - 1
        /\ pc \in {"close", "done"} =>
             /\ Len(commit_after) = (N + batch_size - 1) \div batch_size
             /\ \A k \in 1..N : attempts[k] = 1

C9_Witness ==
    /\ pc = "done"
    /\ N = 3
    /\ batch_size = 2
    /\ commit_after = <<2, 3>>
    /\ item_batch = <<1, 1, 2>>

\* ---- C10
\* C10: at every commit point, a track for which the run wrote a songs row
\* also has the run's mood_analysis row and was counted as processed: an
\* item counted as an error leaves no row of the run in the store.
C10_FailedItemLeavesNoRow ==
    commit_after # <<>> =>
        \A k \in 1..commit_after[Len(commit_after)] :
            "songs" \in item_writes[k] =>
                /\ "mood_analysis" \in item_writes[k]
                /\ item_state[k] = "STORED"

====
